---- MODULE Spec2Model ----
(***************************************************************************)
(* Model of today.js: the rain-block aggregation (groupByTimeSlots), the   *)
(* line formatting (formatRainBlocks, getTime), the daily summary          *)
(* (summarizeDay) and the per-mine loop of displayForecast.                *)
(*                                                                         *)
(* Units: timestamps (dt) are seconds as in the source; probabilities      *)
(* (pop) are kept in hundredths, so the source's 0.4 is 40 and the         *)
(* displayed percentage is the mean of the members in these units.         *)
(***************************************************************************)
EXTENDS Integers, Sequences, FiniteSets

VARIABLES
  \* groupByTimeSlots and formatRainBlocks
  hourlyData, i, block, blocks, result, lines,
  \* displayForecast
  mineIdx, data, todayData, tomorrowData, todayRainBlocks, tomorrowRainBlocks,
  fetched, out,
  \* the process's time zone, and the position in the running function
  tzOffset, pc

gvars == <<hourlyData, i, block, blocks, result, lines>>

dvars == <<mineIdx, data, todayData, tomorrowData, todayRainBlocks,
           tomorrowRainBlocks, fetched, out>>

vars == <<gvars, dvars, tzOffset, pc>>

(***************************************************************************)
(* Program constants.                                                      *)
(***************************************************************************)
PopThreshold == 40
MaxGap == 7200
MaxBlockLen == 4
NumMines == 5
DayHours == 24

(***************************************************************************)
(* Bounds of the model.                                                    *)
(***************************************************************************)
MaxLen == 5

MaxFormatLen == 4

\* Inputs of the scan: equal timestamps, a gap of exactly MaxGap, a gap one
\* second above it; a probability below the threshold and one exactly at it.
Times == {0, 7200, 14401}
Pops == {30, 40}

\* Inputs of the formatting pipeline: morning and afternoon times, and
\* probabilities whose means fall on, above and below a half.
FormatTimes == {0, 3600, 46800}
FormatPops == {30, 50, 60, 75}

\* The time zone of the process (UTC, or +05:30), in seconds east of UTC.
TZOffsets == {0, 19800}

(***************************************************************************)
(* JavaScript values.  An hourly sample is an object with dt and pop; id   *)
(* stands for the object's identity (its position in the input array).     *)
(* Null is a null or undefined array element: reading a property of it     *)
(* throws a TypeError.                                                     *)
(***************************************************************************)
Null == [null |-> TRUE]

Samples == [dt : Times, pop : Pops]

WithIds(raw) ==
  [k \in DOMAIN raw |->
     IF raw[k] = Null THEN Null
     ELSE [id |-> k, dt |-> raw[k].dt, pop |-> raw[k].pop]]

HourlyInputs(n, alphabet) ==
  {WithIds(raw) : raw \in UNION {[1..m -> alphabet] : m \in 0..n}}

(***************************************************************************)
(* groupByTimeSlots, one loop iteration at a time.  The scan state is the  *)
(* open block, the closed blocks, and whether the iteration threw.         *)
(***************************************************************************)
SkippedInclusive(h) == h.pop <= PopThreshold

Skipped(h) == h.pop < PopThreshold

ExtendsNoCap(b, h) == (h.dt - b[Len(b)].dt) <= MaxGap

ExtendsNoGap(b, h) == Len(b) < MaxBlockLen

ExtendsStrictGap(b, h) ==
  (h.dt - b[Len(b)].dt) < MaxGap /\ Len(b) < MaxBlockLen

Extends(b, h) ==
  LET last == b[Len(b)]
  IN  (h.dt - last.dt) <= MaxGap /\ Len(b) < MaxBlockLen

CloseBlockDropsSample(st, h) ==
  [st EXCEPT !.blocks = Append(st.blocks, st.block), !.block = <<>>]

CloseBlock(st, h) ==
  [st EXCEPT !.blocks = Append(st.blocks, st.block), !.block = <<h>>]

ScanStep(st, h) ==
  IF h = Null THEN [st EXCEPT !.threw = TRUE]
  ELSE IF Skipped(h) THEN st
  ELSE IF Len(st.block) = 0 THEN [st EXCEPT !.block = <<h>>]
  ELSE IF Extends(st.block, h) THEN [st EXCEPT !.block = Append(st.block, h)]
  ELSE CloseBlock(st, h)

PushOpenBlockFirst(st) ==
  IF Len(st.block) > 0 THEN <<st.block>> \o st.blocks ELSE st.blocks

PushOpenBlock(st) ==
  IF Len(st.block) > 0 THEN Append(st.blocks, st.block) ELSE st.blocks

(***************************************************************************)
(* blocks.sort((a, b) => a[0].dt - b[0].dt).  Array.prototype.sort is      *)
(* stable; an insertion sort that places an element after every element    *)
(* that does not compare greater gives the same result.                    *)
(***************************************************************************)
CompareBlocksReversed(a, b) == b[1].dt - a[1].dt

CompareBlocks(a, b) == a[1].dt - b[1].dt

RECURSIVE InsertBlock(_, _)
InsertBlock(s, b) ==
  IF s = <<>> THEN <<b>>
  ELSE IF CompareBlocks(s[Len(s)], b) <= 0 THEN Append(s, b)
  ELSE Append(InsertBlock(SubSeq(s, 1, Len(s) - 1), b), s[Len(s)])

RECURSIVE SortBlocks(_)
SortBlocks(bs) ==
  IF bs = <<>> THEN <<>>
  ELSE InsertBlock(SortBlocks(SubSeq(bs, 1, Len(bs) - 1)), bs[Len(bs)])

ScanInit == [block |-> <<>>, blocks |-> <<>>, threw |-> FALSE]

RECURSIVE ScanFrom(_, _, _)
ScanFrom(hd, k, st) ==
  IF st.threw \/ k > Len(hd) THEN st
  ELSE ScanFrom(hd, k + 1, ScanStep(st, hd[k]))

\* The whole function: [threw |-> TRUE] or [threw |-> FALSE, value |-> blocks].
groupByTimeSlots(hd) ==
  LET st == ScanFrom(hd, 1, ScanInit)
  IN  IF st.threw THEN [threw |-> TRUE, value |-> <<>>]
      ELSE [threw |-> FALSE, value |-> SortBlocks(PushOpenBlock(st))]

(***************************************************************************)
(* getTime: toLocaleTimeString('en-IN', {hour: 'numeric', minute:          *)
(* '2-digit', hour12: true}) of the instant, in the process's time zone:   *)
(* the hour on a 12-hour clock, the minute, and the day period.            *)
(***************************************************************************)
SecondsPerDay == 86400

getTime(timestamp, tz) ==
  LET secOfDay == (timestamp + tz) % SecondsPerDay
      hour24 == secOfDay \div 3600
  IN  [hour |-> IF hour24 % 12 = 0 THEN 12 ELSE hour24 % 12,
       minute |-> (secOfDay % 3600) \div 60,
       dayPeriod |-> IF hour24 < 12 THEN "am" ELSE "pm"]

RECURSIVE SumPop(_)
SumPop(b) == IF b = <<>> THEN 0 ELSE SumPop(SubSeq(b, 1, Len(b) - 1)) + b[Len(b)].pop

(***************************************************************************)
(* Math.round(sum / block.length * 100).  Math.round rounds to the nearest *)
(* integer, a tie going up; the sum and the quotient are IEEE doubles, so  *)
(* a mean that is exactly k + 1/2 in decimal may be computed a little      *)
(* below it (0.04, 0.25 give 14.499999999999998): at a tie the result is   *)
(* k or k + 1.  Anywhere else the error is far smaller than the distance   *)
(* to the tie and the result is the nearest integer.                       *)
(***************************************************************************)
AvgProbTruncated(b) == {SumPop(b) \div Len(b)}

AvgProbChoices(b) ==
  LET s == SumPop(b)
      n == Len(b)
      k == s \div n
  IN  IF 2 * (s - k * n) = n THEN {k, k + 1}
      ELSE IF 2 * (s - k * n) > n THEN {k + 1}
      ELSE {k}

FormatBlockChoices(b, tz) ==
  {[start |-> getTime(b[1].dt, tz),
    end |-> getTime(b[Len(b)].dt, tz),
    avgProb |-> p] : p \in AvgProbChoices(b)}

\* formatRainBlocks: the sequences of lines blocks.map(...) can return.
RECURSIVE formatRainBlocks(_, _)
formatRainBlocks(bs, tz) ==
  IF bs = <<>> THEN {<<>>}
  ELSE {Append(front, line) :
          front \in formatRainBlocks(SubSeq(bs, 1, Len(bs) - 1), tz),
          line \in FormatBlockChoices(bs[Len(bs)], tz)}

(***************************************************************************)
(* The scan as a state machine.                                            *)
(***************************************************************************)
Init ==
  /\ hourlyData \in HourlyInputs(MaxLen, Samples \cup {Null})
  /\ i = 1
  /\ block = <<>>
  /\ blocks = <<>>
  /\ result = <<>>
  /\ lines = <<>>
  /\ mineIdx = 0
  /\ data = Null
  /\ todayData = Null
  /\ tomorrowData = Null
  /\ todayRainBlocks = <<>>
  /\ tomorrowRainBlocks = <<>>
  /\ fetched = <<>>
  /\ out = <<>>
  /\ tzOffset = 0
  /\ pc = "scan"

Step ==
  /\ pc = "scan"
  /\ i <= Len(hourlyData)
  /\ LET st == ScanStep([block |-> block, blocks |-> blocks, threw |-> FALSE],
                        hourlyData[i])
     IN  /\ block' = st.block
         /\ blocks' = st.blocks
         /\ pc' = IF st.threw THEN "threw" ELSE "scan"
         /\ i' = IF st.threw THEN i ELSE i + 1
  /\ UNCHANGED <<hourlyData, result, lines, dvars, tzOffset>>

Return ==
  /\ pc = "scan"
  /\ i > Len(hourlyData)
  /\ blocks' = PushOpenBlock([block |-> block, blocks |-> blocks])
  /\ result' = SortBlocks(blocks')
  /\ pc' = "returned"
  /\ UNCHANGED <<hourlyData, i, block, lines, dvars, tzOffset>>

Next == Step \/ Return

Spec == Init /\ [][Next]_vars

(***************************************************************************)
(* formatRainBlocks(groupByTimeSlots(slice)), as displayForecast calls it. *)
(***************************************************************************)
InitFormat ==
  /\ hourlyData \in HourlyInputs(MaxFormatLen, [dt : FormatTimes, pop : FormatPops])
  /\ tzOffset \in TZOffsets
  /\ i = 1
  /\ block = <<>>
  /\ blocks = <<>>
  /\ result = <<>>
  /\ lines = <<>>
  /\ mineIdx = 0
  /\ data = Null
  /\ todayData = Null
  /\ tomorrowData = Null
  /\ todayRainBlocks = <<>>
  /\ tomorrowRainBlocks = <<>>
  /\ fetched = <<>>
  /\ out = <<>>
  /\ pc = "call"

Group ==
  /\ pc = "call"
  /\ LET r == groupByTimeSlots(hourlyData)
     IN  /\ result' = r.value
         /\ pc' = IF r.threw THEN "threw" ELSE "returned"
  /\ UNCHANGED <<hourlyData, i, block, blocks, lines, dvars, tzOffset>>

Format ==
  /\ pc = "returned"
  /\ lines' \in formatRainBlocks(result, tzOffset)
  /\ pc' = "formatted"
  /\ UNCHANGED <<hourlyData, i, block, blocks, result, dvars, tzOffset>>

NextFormat == Group \/ Format

SpecFormat == InitFormat /\ [][NextFormat]_vars

(***************************************************************************)
(* The response of the One Call API, as far as displayForecast reads it:   *)
(* data.daily[0], data.daily[1] and the 48 entries of data.hourly.  A day  *)
(* record that lacks weather[0] or temp is written Null (reading through   *)
(* it throws a TypeError); hasHourly is false for a response without the   *)
(* hourly array.  Temperatures are in hundredths of a degree.              *)
(***************************************************************************)
DryDay ==
  [weather |-> <<[description |-> "clear sky"]>>,
   temp |-> [max |-> 3127, min |-> 2214], pop |-> 0]

WetDay ==
  [weather |-> <<[description |-> "moderate rain"]>>,
   temp |-> [max |-> 2875, min |-> 2190], pop |-> 80]

DayRecords == {Null, DryDay, WetDay}

\* Hour k (from 1) of the forecast: an hourly sample at BaseTime + 3600 (k - 1).
BaseTime == 1700000000

HourlySample(k, p) == [id |-> k, dt |-> BaseTime + 3600 * (k - 1), pop |-> p]

HourlyArray(wet, broken) ==
  [k \in 1..(2 * DayHours) |->
     IF k \in broken THEN Null
     ELSE HourlySample(k, IF k \in wet THEN 60 ELSE 10)]

HourlyArrays ==
  { HourlyArray({}, {}),
    HourlyArray({3, 4, 9}, {}),
    HourlyArray({30, 31, 32, 33, 34}, {}),
    HourlyArray({3}, {5}),
    HourlyArray({3}, {30}) }

Responses ==
  [daily : [1..2 -> DayRecords], hasHourly : {TRUE}, hourly : HourlyArrays]
  \cup [daily : [1..2 -> DayRecords], hasHourly : {FALSE}, hourly : {<<>>}]

\* (x).toFixed(1): x in hundredths, the result in tenths, rounded to nearest.
toFixed1(x) == (x + 5) \div 10

\* summarizeDay: throws when the day record cannot be read.
summarizeDay(daily) ==
  IF daily = Null THEN [threw |-> TRUE, value |-> Null]
  ELSE [threw |-> FALSE,
        value |-> [weather |-> daily.weather[1].description,
                   max |-> toFixed1(daily.temp.max),
                   min |-> toFixed1(daily.temp.min),
                   rain |-> daily.pop > 0]]

\* hourly.slice(from, to), with the source's 0-based, end-exclusive indices.
Slice(arr, from, to) ==
  LET hi == IF to < Len(arr) THEN to ELSE Len(arr)
  IN  IF from >= hi THEN <<>> ELSE SubSeq(arr, from + 1, hi)

(***************************************************************************)
(* displayForecast: the statements of one iteration of the loop over       *)
(* mines, in program order.  Each statement that can throw passes control  *)
(* to the catch clause of the iteration.                                   *)
(***************************************************************************)
NextPcTomorrowAfterToday(p) ==
  CASE p = "summarizeToday" -> "groupToday"
    [] p = "groupToday" -> "printToday"
    [] p = "printToday" -> "summarizeTomorrow"
    [] p = "summarizeTomorrow" -> "groupTomorrow"
    [] p = "groupTomorrow" -> "printTomorrow"
    [] p = "printTomorrow" -> "end"

NextPc(p) ==
  CASE p = "summarizeToday" -> "summarizeTomorrow"
    [] p = "summarizeTomorrow" -> "groupToday"
    [] p = "groupToday" -> "groupTomorrow"
    [] p = "groupTomorrow" -> "printToday"
    [] p = "printToday" -> "printTomorrow"
    [] p = "printTomorrow" -> "end"

\* The constants of one iteration (data, todayData, ...) go out of scope when
\* the loop body ends.
locals == <<data, todayData, tomorrowData, todayRainBlocks, tomorrowRainBlocks>>

LeaveScope ==
  /\ data' = Null
  /\ todayData' = Null
  /\ tomorrowData' = Null
  /\ todayRainBlocks' = <<>>
  /\ tomorrowRainBlocks' = <<>>

\* Where control goes after a statement: p is the next statement of the
\* body, "end" after its last statement, "catchEnd" after the catch clause.
\* At the end of the body the loop takes the next mine, or the function ends.
EndIterationAborts(p) ==
  IF p = "end" /\ mineIdx < NumMines
  THEN /\ mineIdx' = mineIdx + 1
       /\ pc' = "fetch"
       /\ LeaveScope
  ELSE IF p \in {"end", "catchEnd"}
  THEN /\ mineIdx' = mineIdx
       /\ pc' = "done"
       /\ LeaveScope
  ELSE /\ mineIdx' = mineIdx
       /\ pc' = p
       /\ UNCHANGED locals

EndIteration(p) ==
  IF p \in {"end", "catchEnd"} /\ mineIdx < NumMines
  THEN /\ mineIdx' = mineIdx + 1
       /\ pc' = "fetch"
       /\ LeaveScope
  ELSE IF p \in {"end", "catchEnd"}
  THEN /\ mineIdx' = mineIdx
       /\ pc' = "done"
       /\ LeaveScope
  ELSE /\ mineIdx' = mineIdx
       /\ pc' = p
       /\ UNCHANGED locals

LogLine(section, line) ==
  [mine |-> mineIdx, stream |-> "log", section |-> section, line |-> line]

ErrorLine ==
  [mine |-> mineIdx, stream |-> "error", section |-> "error", line |-> "error"]

ReportLines(section, summary, rainBlocks) ==
  <<LogLine(section, "header"), LogLine(section, "weather"),
    LogLine(section, "maxTemp"), LogLine(section, "minTemp"),
    LogLine(section, "rainProbability"), LogLine(section, "rainTiming"),
    LogLine(section, IF Len(rainBlocks) > 0 THEN "rainBlocks" ELSE "none")>>
  \o (IF summary.rain /\ Len(rainBlocks) > 0
      THEN <<LogLine(section, "impact")>> ELSE <<>>)

InitDisplay ==
  /\ hourlyData = <<>>
  /\ i = 1
  /\ block = <<>>
  /\ blocks = <<>>
  /\ result = <<>>
  /\ lines = <<>>
  /\ mineIdx = 1
  /\ data = Null
  /\ todayData = Null
  /\ tomorrowData = Null
  /\ todayRainBlocks = <<>>
  /\ tomorrowRainBlocks = <<>>
  /\ fetched = <<>>
  /\ out = <<>>
  /\ tzOffset = 0
  /\ pc = "fetch"

\* fetchWeatherData is called and displayForecast waits for it.
Fetch ==
  /\ pc = "fetch"
  /\ fetched' = Append(fetched, mineIdx)
  /\ pc' = "await"
  /\ UNCHANGED <<gvars, mineIdx, data, todayData, tomorrowData,
                 todayRainBlocks, tomorrowRainBlocks, out, tzOffset>>

\* fetch rejects, the status is not OK, or res.json() rejects.
FetchFails ==
  /\ pc = "await"
  /\ pc' = "catch"
  /\ UNCHANGED <<gvars, dvars, tzOffset>>

FetchReturns ==
  /\ pc = "await"
  /\ data' \in Responses
  /\ pc' = "summarizeToday"
  /\ UNCHANGED <<gvars, mineIdx, todayData, tomorrowData, todayRainBlocks,
                 tomorrowRainBlocks, fetched, out, tzOffset>>

SummarizeToday ==
  /\ pc = "summarizeToday"
  /\ LET r == summarizeDay(data.daily[1])
     IN  /\ todayData' = r.value
         /\ pc' = IF r.threw THEN "catch" ELSE NextPc("summarizeToday")
  /\ UNCHANGED <<gvars, mineIdx, data, tomorrowData, todayRainBlocks,
                 tomorrowRainBlocks, fetched, out, tzOffset>>

SummarizeTomorrow ==
  /\ pc = "summarizeTomorrow"
  /\ LET r == summarizeDay(data.daily[2])
     IN  /\ tomorrowData' = r.value
         /\ pc' = IF r.threw THEN "catch" ELSE NextPc("summarizeTomorrow")
  /\ UNCHANGED <<gvars, mineIdx, data, todayData, todayRainBlocks,
                 tomorrowRainBlocks, fetched, out, tzOffset>>

\* groupByTimeSlots(hourly.slice(from, from + DayHours)) for the arrays a
\* response can hold.  The function is pure: its results are tabulated once.
GroupedSlice ==
  [arr \in HourlyArrays, from \in {0, DayHours} |->
     groupByTimeSlots(Slice(arr, from, from + DayHours))]

\* formatRainBlocks(groupByTimeSlots(data.hourly.slice(from, from + DayHours)))
RainBlocksOf(from) ==
  IF ~data.hasHourly THEN [threw |-> TRUE, values |-> {<<>>}]
  ELSE LET r == GroupedSlice[data.hourly, from]
       IN  IF r.threw THEN [threw |-> TRUE, values |-> {<<>>}]
           ELSE [threw |-> FALSE, values |-> formatRainBlocks(r.value, tzOffset)]

GroupToday ==
  /\ pc = "groupToday"
  /\ LET r == RainBlocksOf(0)
     IN  /\ todayRainBlocks' \in r.values
         /\ pc' = IF r.threw THEN "catch" ELSE NextPc("groupToday")
  /\ UNCHANGED <<gvars, mineIdx, data, todayData, tomorrowData,
                 tomorrowRainBlocks, fetched, out, tzOffset>>

GroupTomorrow ==
  /\ pc = "groupTomorrow"
  /\ LET r == RainBlocksOf(DayHours)
     IN  /\ tomorrowRainBlocks' \in r.values
         /\ pc' = IF r.threw THEN "catch" ELSE NextPc("groupTomorrow")
  /\ UNCHANGED <<gvars, mineIdx, data, todayData, tomorrowData,
                 todayRainBlocks, fetched, out, tzOffset>>

PrintToday ==
  /\ pc = "printToday"
  /\ out' = out \o ReportLines("today", todayData, todayRainBlocks)
  /\ EndIteration(NextPc("printToday"))
  /\ UNCHANGED <<gvars, fetched, tzOffset>>

PrintTomorrow ==
  /\ pc = "printTomorrow"
  /\ out' = out \o ReportLines("tomorrow", tomorrowData, tomorrowRainBlocks)
  /\ EndIteration(NextPc("printTomorrow"))
  /\ UNCHANGED <<gvars, fetched, tzOffset>>

\* catch (err) { console.error(...) }, then the loop goes on.
Catch ==
  /\ pc = "catch"
  /\ out' = Append(out, ErrorLine)
  /\ EndIteration("catchEnd")
  /\ UNCHANGED <<gvars, fetched, tzOffset>>

NextDisplay ==
  \/ Fetch
  \/ FetchFails
  \/ FetchReturns
  \/ SummarizeToday
  \/ SummarizeTomorrow
  \/ GroupToday
  \/ GroupTomorrow
  \/ PrintToday
  \/ PrintTomorrow
  \/ Catch

SpecDisplay == InitDisplay /\ [][NextDisplay]_vars

(***************************************************************************)
(* Vocabulary of the properties.                                           *)
(***************************************************************************)
WellFormed(hd) == \A k \in 1..Len(hd) : hd[k] # Null

NonDecreasing(hd) ==
  /\ WellFormed(hd)
  /\ \A k \in 1..(Len(hd) - 1) : hd[k].dt <= hd[k + 1].dt

StrictlyIncreasing(hd) ==
  /\ WellFormed(hd)
  /\ \A k \in 1..(Len(hd) - 1) : hd[k].dt < hd[k + 1].dt

IsQualifying(h) == h.pop >= PopThreshold

QualifyingOf(hd) == SelectSeq(hd, IsQualifying)

RECURSIVE Flatten(_)
Flatten(bs) ==
  IF bs = <<>> THEN <<>>
  ELSE Flatten(SubSeq(bs, 1, Len(bs) - 1)) \o bs[Len(bs)]

SizeOk(b) == Len(b) >= 1 /\ Len(b) <= MaxBlockLen

GapsOk(b) == \A j \in 1..(Len(b) - 1) : b[j + 1].dt - b[j].dt <= MaxGap

StrictlyAscendingStarts(bs) ==
  \A k \in 1..(Len(bs) - 1) : bs[k][1].dt < bs[k + 1][1].dt

NoSharedSample(bs) ==
  \A k1, k2 \in 1..Len(bs) : \A j1 \in 1..Len(bs[k1]) : \A j2 \in 1..Len(bs[k2]) :
    bs[k1][j1].id = bs[k2][j2].id => (k1 = k2 /\ j1 = j2)

\* Between consecutive windows: the earlier one is full, or the gap from its
\* last member to the next window's first member exceeds MaxGap.
BreaksJustified(bs) ==
  \A k \in 1..(Len(bs) - 1) :
    \/ Len(bs[k]) = MaxBlockLen
    \/ bs[k + 1][1].dt - bs[k][Len(bs[k])].dt > MaxGap

Returned == pc = "returned"

\* C1: every returned window holds at least 1 and at most 4 samples, and so
\* do the open block (once it holds a sample) and every closed block after
\* every step of the scan, whatever the input.
C1_WindowSizes ==
  /\ Len(block) <= MaxBlockLen
  /\ \A k \in 1..Len(blocks) : SizeOk(blocks[k])
  /\ Returned => \A k \in 1..Len(result) : SizeOk(result[k])

C1_Witness ==
  /\ Returned
  /\ ~NonDecreasing(hourlyData)
  /\ Len(result) = 2
  /\ Len(result[1]) = MaxBlockLen
  /\ Len(result[2]) = 1

\* C2: in every returned window, consecutive members are at most 7200
\* seconds apart (later.dt - earlier.dt <= 7200), whatever the input.
C2_WindowGaps ==
  /\ GapsOk(block)
  /\ \A k \in 1..Len(blocks) : GapsOk(blocks[k])
  /\ Returned => \A k \in 1..Len(result) : GapsOk(result[k])

C2_Witness ==
  /\ Returned
  /\ \E k \in 1..Len(result) : \E j \in 1..(Len(result[k]) - 1) :
       result[k][j + 1].dt - result[k][j].dt = MaxGap
  /\ \E k \in 1..(Len(result) - 1) :
       result[k + 1][1].dt - result[k][Len(result[k])].dt = MaxGap + 1

\* C3 as stated: for input in non-decreasing timestamp order the returned
\* windows are in strictly ascending order of first-member timestamp and no
\* sample is in two windows.
C3_Original ==
  (Returned /\ NonDecreasing(hourlyData)) =>
    (StrictlyAscendingStarts(result) /\ NoSharedSample(result))

\* C3 amended: for input in non-decreasing timestamp order no sample is in
\* two windows, and each window starts strictly later than the one before it
\* unless that one is full and its four members and the next window's first
\* member all carry one timestamp; with strictly increasing (unique)
\* timestamps the starts are strictly ascending.
C3_Amended ==
  /\ (Returned /\ NonDecreasing(hourlyData)) =>
       /\ NoSharedSample(result)
       /\ \A k \in 1..(Len(result) - 1) :
            \/ result[k][1].dt < result[k + 1][1].dt
            \/ /\ Len(result[k]) = MaxBlockLen
               /\ \A j \in 1..Len(result[k]) : result[k][j].dt = result[k + 1][1].dt
  /\ (Returned /\ StrictlyIncreasing(hourlyData)) => StrictlyAscendingStarts(result)

C3_Witness ==
  /\ Returned
  /\ StrictlyIncreasing(hourlyData)
  /\ Len(result) = 2
  /\ Len(result[1]) = 2

\* C4: for input in non-decreasing timestamp order, the members of the
\* returned windows, concatenated in window order, are exactly the samples
\* with pop >= 0.4 in input order.
C4_Partition ==
  (Returned /\ NonDecreasing(hourlyData)) =>
    Flatten(result) = QualifyingOf(hourlyData)

C4_Witness ==
  /\ Returned
  /\ NonDecreasing(hourlyData)
  /\ Len(result) = 2
  /\ Len(QualifyingOf(hourlyData)) = 3
  /\ Len(hourlyData) = 5
  /\ ~IsQualifying(hourlyData[2])

\* C7: no throw and an empty result for an empty input or one with every
\* sample below 0.4; no throw and one window of one member when exactly one
\* sample has pop >= 0.4.
C7_EdgeCases ==
  /\ (WellFormed(hourlyData) /\ Len(QualifyingOf(hourlyData)) = 0) =>
       /\ pc # "threw"
       /\ Returned => result = <<>>
  /\ (WellFormed(hourlyData) /\ Len(QualifyingOf(hourlyData)) = 1) =>
       /\ pc # "threw"
       /\ Returned => (Len(result) = 1 /\ result[1] = QualifyingOf(hourlyData))

C7_Witness ==
  /\ Returned
  /\ Len(hourlyData) = 3
  /\ WellFormed(hourlyData)
  /\ Len(QualifyingOf(hourlyData)) = 1
  /\ IsQualifying(hourlyData[2])
  /\ Len(result) = 1

\* C8: for input in non-decreasing timestamp order the blocks the scan
\* built are already in ascending order of first-member timestamp, and the
\* final sort returns them unchanged.
C8_SortIsNoOp ==
  (Returned /\ NonDecreasing(hourlyData)) =>
    /\ \A k \in 1..(Len(blocks) - 1) : blocks[k][1].dt <= blocks[k + 1][1].dt
    /\ result = blocks

C8_Witness ==
  /\ Returned
  /\ NonDecreasing(hourlyData)
  /\ Len(blocks) = 2
  /\ blocks[1][1].dt < blocks[2][1].dt
  /\ result = blocks

\* The rule of one scan step over a qualifying sample h = hourlyData[i]: a
\* new window starts exactly when no window is open, or h.dt minus the last
\* member's dt exceeds MaxGap, or the open window holds MaxBlockLen samples;
\* an open window is then closed unchanged and the new one holds only h;
\* otherwise h is appended to the open window.
StepRule ==
  (/\ pc = "scan"
   /\ i <= Len(hourlyData)
   /\ i' = i + 1
   /\ hourlyData[i] # Null
   /\ IsQualifying(hourlyData[i])) =>
    LET h == hourlyData[i]
        startsNew ==
          \/ block = <<>>
          \/ h.dt - block[Len(block)].dt > MaxGap
          \/ Len(block) = MaxBlockLen
    IN  IF startsNew
        THEN /\ block' = <<h>>
             /\ blocks' = IF block = <<>> THEN blocks ELSE Append(blocks, block)
        ELSE /\ block' = Append(block, h)
             /\ blocks' = blocks

\* The last member of the open window is the latest qualifying sample read
\* so far, whatever below-threshold samples came after it.
LastMemberIsPreviousQualifying ==
  (pc = "scan" /\ block # <<>>) =>
    LET seen == QualifyingOf(SubSeq(hourlyData, 1, i - 1))
    IN  seen # <<>> /\ block[Len(block)] = seen[Len(seen)]

\* C5 as stated: the step rule, and consequently any two consecutive
\* returned windows are separated by a full window or a gap above 7200.
C5_Original ==
  /\ [][StepRule]_vars
  /\ [](LastMemberIsPreviousQualifying /\ (Returned => BreaksJustified(result)))

\* C5 amended: the step rule holds for every input; any two consecutive
\* blocks of the scan are separated by a full window or a gap above 7200, and
\* so are any two consecutive returned windows when the input is in
\* non-decreasing timestamp order.
C5_Amended ==
  /\ [][StepRule]_vars
  /\ [](/\ LastMemberIsPreviousQualifying
        /\ BreaksJustified(blocks)
        /\ (Returned /\ NonDecreasing(hourlyData)) => BreaksJustified(result))

C5_Witness ==
  /\ Returned
  /\ NonDecreasing(hourlyData)
  /\ Len(result) = 2
  /\ Len(result[1]) = 2
  /\ result[2][1].dt - result[1][2].dt > MaxGap
  /\ \E k \in 1..Len(hourlyData) : ~IsQualifying(hourlyData[k])

\* C9: the percentage on a window's line is the mean of its members'
\* probabilities in percent, rounded to a nearest integer, and the times
\* shown are the clock times of the window's first and last member.
IsNearestInteger(p, sum, n) ==
  LET d == p * n - sum
  IN  2 * (IF d < 0 THEN -d ELSE d) <= n

RECURSIVE SumOfPops(_, _)
SumOfPops(b, k) == IF k = 0 THEN 0 ELSE b[k].pop + SumOfPops(b, k - 1)

\* The clock time t is the minute of the day in which the instant falls.
ShowsInstant(t, timestamp) ==
  LET secOfDay == (timestamp + tzOffset) % 86400
  IN  /\ t.hour \in 1..12
      /\ t.minute \in 0..59
      /\ t.dayPeriod \in {"am", "pm"}
      /\ ((t.hour % 12) + (IF t.dayPeriod = "pm" THEN 12 ELSE 0)) * 3600
           + t.minute * 60 = secOfDay - (secOfDay % 60)

C9_LineOfWindow ==
  pc = "formatted" =>
    /\ Len(lines) = Len(result)
    /\ \A k \in 1..Len(result) :
         /\ IsNearestInteger(lines[k].avgProb,
                             SumOfPops(result[k], Len(result[k])), Len(result[k]))
         /\ ShowsInstant(lines[k].start, result[k][1].dt)
         /\ ShowsInstant(lines[k].end, result[k][Len(result[k])].dt)

C9_Witness ==
  /\ pc = "formatted"
  /\ tzOffset = 19800
  /\ Len(result) = 2
  /\ Len(result[1]) = 2
  /\ result[1][1].pop = 50
  /\ result[1][2].pop = 60
  /\ lines[1].avgProb = 55
  /\ lines[1].start = [hour |-> 5, minute |-> 30, dayPeriod |-> "am"]
  /\ lines[1].end = [hour |-> 6, minute |-> 30, dayPeriod |-> "am"]
  /\ Len(result[2]) = 1
  /\ lines[2].avgProb = 75
  /\ lines[2].start = [hour |-> 6, minute |-> 30, dayPeriod |-> "pm"]

(***************************************************************************)
(* displayForecast.                                                        *)
(***************************************************************************)
LinesOf(m) == SelectSeq(out, LAMBDA l : l.mine = m)

IsErrorLine(l) == l.stream = "error"

ErrorLinesOf(m) == SelectSeq(LinesOf(m), IsErrorLine)

Finished(m) == m < mineIdx \/ pc = "done"

\* After the catch clause the loop goes on with the next mine.
CatchStep ==
  pc = "catch" =>
    /\ out' = Append(out, [mine |-> mineIdx, stream |-> "error",
                           section |-> "error", line |-> "error"])
    /\ IF mineIdx < NumMines
       THEN mineIdx' = mineIdx + 1 /\ pc' = "fetch"
       ELSE pc' = "done"

AttemptsInOrder ==
  /\ mineIdx \in 1..NumMines
  /\ fetched = [k \in 1..Len(fetched) |-> k]
  /\ Len(fetched) = IF pc = "fetch" THEN mineIdx - 1 ELSE mineIdx
  /\ pc = "done" => fetched = [k \in 1..NumMines |-> k]

ReportedPerMine ==
  /\ \A k \in 1..(Len(out) - 1) : out[k].mine <= out[k + 1].mine
  /\ \A m \in 1..NumMines :
       /\ Finished(m) => LinesOf(m) # <<>>
       /\ m > mineIdx => LinesOf(m) = <<>>
       /\ Len(ErrorLinesOf(m)) <= 1

\* The statements still to run: those of the mines after this one, and
\* those left in this iteration.
StatementsLeft ==
  (NumMines - mineIdx) * 10
  + (CASE pc = "fetch" -> 9 [] pc = "await" -> 8
       [] pc = "summarizeToday" -> 7 [] pc = "summarizeTomorrow" -> 6
       [] pc = "groupToday" -> 5 [] pc = "groupTomorrow" -> 4
       [] pc = "printToday" -> 3 [] pc = "printTomorrow" -> 2
       [] pc = "catch" -> 1 [] pc = "done" -> 0)

\* C6: whatever fails for a mine (the fetch, the status, summarizing or
\* grouping), the failure is reported for that mine only and the loop goes
\* on: every mine is attempted exactly once, in list order, each is reported,
\* and the run finishes after the last mine (every step brings the end
\* nearer and, once the request has settled, nothing short of the end stops
\* the run).
C6_FailureIsolation ==
  /\ [](/\ AttemptsInOrder
        /\ ReportedPerMine
        /\ pc # "done" => ENABLED NextDisplay)
  /\ [][CatchStep /\ StatementsLeft' < StatementsLeft]_vars

C6_Witness ==
  /\ pc = "done"
  /\ Len(ErrorLinesOf(1)) = 1
  /\ Len(ErrorLinesOf(2)) = 0
  /\ Len(ErrorLinesOf(3)) = 1
  /\ Len(ErrorLinesOf(4)) = 1
  /\ Len(ErrorLinesOf(5)) = 0
  /\ Len(LinesOf(5)) > 1

\* The lines of one section of the report, in order; the last line is there
\* only after a line of rain blocks.
IsSection(ls, section) ==
  /\ Len(ls) \in {7, 8}
  /\ \A k \in 1..Len(ls) : ls[k].stream = "log" /\ ls[k].section = section
  /\ [k \in 1..6 |-> ls[k].line]
       = <<"header", "weather", "maxTemp", "minTemp", "rainProbability", "rainTiming">>
  /\ ls[7].line \in {"rainBlocks", "none"}
  /\ Len(ls) = 8 => (ls[7].line = "rainBlocks" /\ ls[8].line = "impact")

IsReport(ls) ==
  \E n \in {7, 8} :
    /\ Len(ls) > n
    /\ IsSection(SubSeq(ls, 1, n), "today")
    /\ IsSection(SubSeq(ls, n + 1, Len(ls)), "tomorrow")

IsErrorOnly(ls) == Len(ls) = 1 /\ IsErrorLine(ls[1])

\* C10: the output for a mine is all or nothing: the complete report (the
\* Today section, then the Tomorrow section) and no error line, or one error
\* line and no report line; a failure never comes after a report line of the
\* mine has been printed.
C10_AllOrNothing ==
  /\ \A m \in 1..NumMines :
       /\ Finished(m) => (IsReport(LinesOf(m)) \/ IsErrorOnly(LinesOf(m)))
       /\ (m = mineIdx /\ pc # "done") =>
            \/ LinesOf(m) = <<>>
            \/ pc = "printTomorrow" /\ IsSection(LinesOf(m), "today")
  /\ pc = "catch" => LinesOf(mineIdx) = <<>>

C10_Witness ==
  /\ pc = "done"
  /\ IsErrorOnly(LinesOf(1))
  /\ IsReport(LinesOf(2))
  /\ Len(LinesOf(2)) = 15
  /\ LinesOf(2)[8].line = "impact"
  /\ IsErrorOnly(LinesOf(3))
  /\ IsReport(LinesOf(4))
  /\ Len(LinesOf(4)) = 14
  /\ IsReport(LinesOf(5))
  /\ Len(LinesOf(5)) = 15
  /\ LinesOf(5)[15].line = "impact"

====
